---------------------------- MODULE Spec2Model ----------------------------
(***************************************************************************)
(* BirthdayInputField (src/components/BirthdayInputField):                 *)
(*   - the date composer: parseNum, isValidDate, dateFromSelected,         *)
(*     selectedFromDate, over the ECMAScript Date built-ins they call;     *)
(*   - the BirthdayInput component: its local selection, the value prop,   *)
(*     the three <Select> controls and the delayed blur notification.      *)
(*                                                                         *)
(* Spec is the whole component.  Its two halves share no state, and are    *)
(* also specified apart: SpecFocus (focus, blur, timeout, unmount, clock)  *)
(* and SpecSelect (field changes, value prop).  SpecDate calls the date    *)
(* composer on its own.  SpecMixed runs the two halves together for one   *)
(* control, SpecFeedback the field changes under an owner that hands each  *)
(* emitted value back, and SpecField calls the field wrapper on its own.   *)
(*                                                                         *)
(* The environment: a control receives blur only while it holds the focus  *)
(* and focus only while no control does (the DOM blurs one element before  *)
(* it focuses the next); the window runs a timeout when its delay has      *)
(* elapsed, before any event that happens at or after that time.           *)
(* SpecReblur lifts the first assumption for blur: a <Select> is another   *)
(* component's code, and there it may report a blur while no control holds *)
(* the focus, so that blurs follow each other with no focus in between.    *)
(***************************************************************************)
EXTENDS Integers, Sequences, FiniteSets

VARIABLES
  currentYear,    \* the calendar year the module was loaded in
  phase,          \* "constructed", "mounted" or "unmounted"
  selected,       \* this.state.selected
  value,          \* this.props.value
  focused,        \* the control that holds the focus, or "none"
  blurTimeoutId,  \* this.blurTimeoutId
  timers,         \* the window's pending timeouts
  nextTimerId,    \* the id the window gives its next timeout
  now,            \* the time, in ms
  blurs,          \* per blur event, in order: what followed it
  ev,             \* the last event handled
  calls,          \* the callbacks the last event invoked, in order
  emitted,        \* the last value handed to onChange
  probe           \* a call of the date composer: its argument and results

widgetVars == <<phase, selected, value, focused, blurTimeoutId, timers,
                nextTimerId, now, blurs, ev, calls, emitted>>
vars == <<currentYear, phase, selected, value, focused, blurTimeoutId, timers,
          nextTimerId, now, blurs, ev, calls, emitted, probe>>

(***************************************************************************)
(* JavaScript values.  null, NaN, numbers and strings are tagged records,  *)
(* a string is the sequence of its characters.                             *)
(***************************************************************************)
Null == [t |-> "null"]
NaN == [t |-> "NaN"]
N(n) == [t |-> "num", v |-> n]
S(chars) == [t |-> "str", s |-> chars]

IsNum(x) == x.t = "num"

\* a === b on numbers (NaN is equal to nothing, itself included)
StrictEq(a, b) == IsNum(a) /\ IsNum(b) /\ a.v = b.v

Digits == <<"0", "1", "2", "3", "4", "5", "6", "7", "8", "9">>
IsDigit(c) == \E i \in 1..10 : Digits[i] = c
DigitVal(c) == (CHOOSE i \in 1..10 : Digits[i] = c) - 1

RECURSIVE StripWS(_)
StripWS(s) == IF s # <<>> /\ Head(s) = " " THEN StripWS(Tail(s)) ELSE s

RECURSIVE DigitPrefix(_, _)
\* the value of the longest prefix of digits of s, read after acc
DigitPrefix(s, acc) ==
  IF s # <<>> /\ IsDigit(Head(s))
    THEN DigitPrefix(Tail(s), (acc * 10) + DigitVal(Head(s)))
    ELSE acc

\* parseInt(x, 10): ToString(x), skip white space, a sign, then the digits
\* up to the first character that is none; NaN when there is no digit.
parseInt(x) ==
  CASE x.t = "num" -> x
    [] x.t = "str" ->
         LET s == StripWS(x.s)
             neg == s # <<>> /\ Head(s) = "-"
             body == IF s # <<>> /\ Head(s) \in {"-", "+"} THEN Tail(s) ELSE s
         IN IF body # <<>> /\ IsDigit(Head(body))
              THEN N((IF neg THEN -1 ELSE 1) * DigitPrefix(body, 0))
              ELSE NaN
    [] OTHER -> NaN

\* a slip: a field that does not parse counts as 1
parseNumDefault(str) ==
  LET num == parseInt(str)
  IN IF num = NaN THEN N(1) ELSE num

parseNum(str) ==
  LET num == parseInt(str)
  IN IF num = NaN THEN Null ELSE num

(***************************************************************************)
(* ECMAScript Date.  A time value is NaN or [day, ms]: the day number      *)
(* since 1970-01-01 UTC and the milliseconds within that day.              *)
(***************************************************************************)
MaxDay == 100000000

\* Day number of the civil date (y, m, d), m in 1..12, proleptic Gregorian
DayFromCivil(y, m, d) ==
  LET yy == IF m <= 2 THEN y - 1 ELSE y
      era == yy \div 400
      yoe == yy - era * 400
      mp == IF m > 2 THEN m - 3 ELSE m + 9
      doy == (((153 * mp) + 2) \div 5) + d - 1
      doe == (yoe * 365) + (yoe \div 4) - (yoe \div 100) + doy
  IN (era * 146097) + doe - 719468

\* The civil date [year, month, date] of a day number, month in 1..12
CivilFromDay(z) ==
  LET zz == z + 719468
      era == zz \div 146097
      doe == zz - (era * 146097)
      yoe == (doe - (doe \div 1460) + (doe \div 36524) - (doe \div 146096)) \div 365
      doy == doe - ((365 * yoe) + (yoe \div 4) - (yoe \div 100))
      mp == ((5 * doy) + 2) \div 153
      d == doy - (((153 * mp) + 2) \div 5) + 1
      m == IF mp < 10 THEN mp + 3 ELSE mp - 9
  IN [year |-> yoe + (era * 400) + (IF m <= 2 THEN 1 ELSE 0), month |-> m, date |-> d]

\* MakeDay(year, month, date), month counted from 0 and of any size
MakeDay(year, month, date) ==
  DayFromCivil(year + (month \div 12), (month % 12) + 1, 1) + date - 1

\* Date.UTC(year, month, date): years 0..99 mean 1900..1999; TimeClip
DateUTC(year, month, date) ==
  LET yr == IF 0 <= year /\ year <= 99 THEN 1900 + year ELSE year
      day == MakeDay(yr, month, date)
  IN IF day > MaxDay \/ day < -MaxDay THEN NaN ELSE [day |-> day, ms |-> 0]

\* new Date(tv)
NewDate(tv) == [t |-> "date", tv |-> tv]
IsDate(x) == x.t = "date"

getUTCFullYear(date) ==
  IF date.tv = NaN THEN NaN ELSE N(CivilFromDay(date.tv.day).year)
\* counted from 0
getUTCMonth(date) ==
  IF date.tv = NaN THEN NaN ELSE N(CivilFromDay(date.tv.day).month - 1)
getUTCDate(date) ==
  IF date.tv = NaN THEN NaN ELSE N(CivilFromDay(date.tv.day).date)

Plus1(x) == IF IsNum(x) THEN N(x.v + 1) ELSE NaN

(***************************************************************************)
(* The date composer                                                       *)
(***************************************************************************)
isValidDate(date, year, month, day) ==
  LET yearsMatch == StrictEq(getUTCFullYear(date), year)
      monthsMatch == StrictEq(Plus1(getUTCMonth(date)), month)
      daysMatch == StrictEq(getUTCDate(date), day)
  IN yearsMatch /\ monthsMatch /\ daysMatch

Sel(d, m, y) == [day |-> d, month |-> m, year |-> y]

\* a slip: the date is not read back, so a day the month lacks rolls over
dateFromSelectedUnchecked(sel) ==
  LET dayNum == parseNum(sel.day)
      monthNum == parseNum(sel.month)
      yearNum == parseNum(sel.year)
  IN IF dayNum # Null /\ monthNum # Null /\ yearNum # Null
       THEN NewDate(DateUTC(yearNum.v, monthNum.v - 1, dayNum.v))
       ELSE Null

dateFromSelected(sel) ==
  LET dayNum == parseNum(sel.day)
      monthNum == parseNum(sel.month)
      yearNum == parseNum(sel.year)
  IN IF dayNum # Null /\ monthNum # Null /\ yearNum # Null
       THEN LET d == NewDate(DateUTC(yearNum.v, monthNum.v - 1, dayNum.v))
            IN IF isValidDate(d, yearNum, monthNum, dayNum) THEN d ELSE Null
       ELSE Null

\* a slip: the month is left counted from 0
selectedFromDateLocalMonth(date) ==
  [day |-> getUTCDate(date), month |-> getUTCMonth(date), year |-> getUTCFullYear(date)]

selectedFromDate(date) ==
  [day |-> getUTCDate(date),
   month |-> Plus1(getUTCMonth(date)),
   year |-> getUTCFullYear(date)]


(***************************************************************************)
(* The option lists                                                        *)
(***************************************************************************)
\* lodash range(start, end, step) for a step of 1 or -1
range(start, end, step) ==
  IF step > 0
    THEN [i \in 1..(IF end > start THEN end - start ELSE 0) |-> start + i - 1]
    ELSE [i \in 1..(IF start > end THEN start - end ELSE 0) |-> start - i + 1]

\* a slip: the end of the range is taken as its last element
daysToThirty == range(1, 31, 1)
days == range(1, 32, 1)
months == range(1, 13, 1)
yearsToShow == 80
years(cy) == range(cy, cy - yearsToShow, -1)

Elems(seq) == {seq[i] : i \in DOMAIN seq}

\* the years the module may be loaded in
CurrentYears == {2023, 2024}

RECURSIVE ToStr(_)
\* String(n) of a natural number
ToStr(n) ==
  IF n < 10 THEN <<Digits[n + 1]>> ELSE ToStr(n \div 10) \o <<Digits[(n % 10) + 1]>>

\* the label of a day or month option: two digits
pad(num) == IF num >= 0 /\ num < 10 THEN <<"0">> \o ToStr(num) ELSE ToStr(num)

(***************************************************************************)
(* Calls of the date composer on its own: compose, decompose, compose      *)
(***************************************************************************)
\* values of a field that are no option of its control
OddRaw ==
  {Null, NaN, S(<<>>), S(<<"a">>), S(<<" ", "7">>), S(<<"-", "3">>),
   S(<<"1", "5", "a">>), S(<<"0", "4">>), S(<<"2", "0", "2", "4">>),
   N(0), N(-1), N(13), N(32), N(50), N(1900), N(300000)}

ProbeStart(d, m, y) ==
  [pc |-> "start", arg |-> Sel(d, m, y), c1 |-> Null, dec |-> Sel(Null, Null, Null),
   c2 |-> Null]

ProbeIdle == [pc |-> "idle"]

ProbeCompose ==
  /\ probe.pc = "start"
  /\ probe' = [probe EXCEPT !.pc = "composed", !.c1 = dateFromSelected(probe.arg)]
  /\ UNCHANGED <<currentYear, widgetVars>>

ProbeDecompose ==
  /\ probe.pc = "composed"
  /\ IsDate(probe.c1)
  /\ probe' = [probe EXCEPT !.pc = "decomposed", !.dec = selectedFromDate(probe.c1)]
  /\ UNCHANGED <<currentYear, widgetVars>>

ProbeRecompose ==
  /\ probe.pc = "decomposed"
  /\ probe' = [probe EXCEPT !.pc = "recomposed", !.c2 = dateFromSelected(probe.dec)]
  /\ UNCHANGED <<currentYear, widgetVars>>

(***************************************************************************)
(* The BirthdayInput component                                             *)
(***************************************************************************)
BLUR_TIMEOUT == 100

\* the model's bounds: blur events per run, the clock's end and its step (ms)
MaxBlurs == 2
MaxTime == 200
TickMs == 50

Controls == {"day", "month", "year"}
EmptySelected == Sel(Null, Null, Null)

\* a Date object lives at a reference: two objects may hold the same time
AtRef(date, ref) == [t |-> "date", tv |-> date.tv, ref |-> ref]

\* the Date objects the owner makes itself: two of the same day, one of
\* them not at midnight UTC
OwnerDates ==
  {AtRef(NewDate([day |-> DayFromCivil(2024, 2, 29), ms |-> 0]), 1),
   AtRef(NewDate([day |-> DayFromCivil(2024, 2, 29), ms |-> 46800000]), 2)}

\* the references of the Date objects dateFromSelected makes: the owner
\* keeps the value it passed and the last date emitted, so two are enough
ComposerRefs == 3..4
InUse(ref) == IsDate(value) /\ value.ref = ref
FreshRef == CHOOSE r \in ComposerRefs :
              ~InUse(r) /\ \A q \in ComposerRefs : q < r => InUse(q)

\* two dates of the same UTC day, be they one object or two
SameDay(a, b) == IF IsDate(a) /\ IsDate(b) THEN a.tv.day = b.tv.day ELSE a = b
\* a === b on null and Date objects: the same object
Identical(a, b) == IF IsDate(a) /\ IsDate(b) THEN a.ref = b.ref ELSE a = b

\* the options the user picks among, of the options the controls render
DayPicks == {29, 31} \cap Elems(days)
MonthPicks == {2, 4} \cap Elems(months)
YearPicks == {currentYear} \cap Elems(years(currentYear))
Picks(type) ==
  CASE type = "day" -> DayPicks [] type = "month" -> MonthPicks [] type = "year" -> YearPicks
\* e.target.value: the empty option, or an option's value as a string
OptionValues(type) == {S(<<>>)} \cup {S(ToStr(n)) : n \in Picks(type)}

\* <option />, and <option value={n}>{label}</option>
EmptyOption == [value |-> Null, label |-> <<>>]
Option(n, label) == [value |-> N(n), label |-> label]
\* the value a control shows: typeof n === 'number' ? n : ''
selectedValue(n) == IF n.t \in {"num", "NaN"} THEN n ELSE S(<<>>)

\* the three controls render() returns, each with its options in order
render ==
  LET ys == years(currentYear)
  IN
  [day |-> [value |-> selectedValue(selected.day),
            options |-> <<EmptyOption>> \o
                        [i \in DOMAIN days |-> Option(days[i], pad(days[i]))]],
   month |-> [value |-> selectedValue(selected.month),
              options |-> <<EmptyOption>> \o
                          [i \in DOMAIN months |-> Option(months[i], pad(months[i]))]],
   year |-> [value |-> selectedValue(selected.year),
             options |-> <<EmptyOption>> \o
                         [i \in DOMAIN ys |-> Option(ys[i], ToStr(ys[i]))]]]

Due == {tm \in timers : tm.due <= now}
\* a slip: nothing is cleared
clearTimeoutNothing(id) == timers
\* window.clearTimeout(id)
clearTimeout(id) == {tm \in timers : N(tm.id) # id}

Call(cb) == [cb |-> cb]
CallWith(cb, arg) == [cb |-> cb, arg |-> arg]

Init ==
  /\ currentYear \in CurrentYears
  /\ phase = "constructed"
  /\ selected = EmptySelected
  /\ value \in {Null} \cup OwnerDates
  /\ focused = "none"
  /\ blurTimeoutId = Null
  /\ timers = {}
  /\ nextTimerId = 1
  /\ now = 0
  /\ blurs = <<>>
  /\ ev = [type |-> "construct"]
  /\ calls = <<>>
  /\ emitted = Null
  /\ probe = ProbeIdle

\* a slip: the initial value is not looked at
mountSelectedKept == selected
\* the selection componentWillMount leaves
mountSelected == IF IsDate(value) THEN selectedFromDate(value) ELSE selected

componentWillMount ==
  /\ phase = "constructed"
  /\ phase' = "mounted"
  /\ selected' = mountSelected
  /\ ev' = [type |-> "mount"]
  /\ calls' = <<>>
  /\ UNCHANGED <<currentYear, value, focused, blurTimeoutId, timers, nextTimerId,
                 now, blurs, emitted, probe>>

\* a slip: dates are compared by their day, not as objects
valueChangedByDay(oldValue, newValue) == ~SameDay(oldValue, newValue)
valueChanged(oldValue, newValue) == ~Identical(oldValue, newValue)

\* a slip: a null value resets the selection
resyncAlways(newValue) ==
  IF valueChanged(value, newValue)
    THEN (IF IsDate(newValue) THEN selectedFromDate(newValue) ELSE EmptySelected)
    ELSE selected

\* the selection componentWillReceiveProps leaves
resync(newValue) ==
  IF valueChanged(value, newValue) /\ IsDate(newValue)
    THEN selectedFromDate(newValue)
    ELSE selected

componentWillReceiveProps(newValue) ==
  /\ phase = "mounted"
  /\ Due = {}
  /\ selected' = resync(newValue)
  /\ value' = newValue
  /\ ev' = [type |-> "props", prevSelected |-> selected, prevValue |-> value]
  /\ calls' = <<>>
  /\ UNCHANGED <<currentYear, phase, focused, blurTimeoutId, timers, nextTimerId,
                 now, blurs, emitted, probe>>

\* a slip: the timeout is left pending
unmountTimersKept == timers
unmountTimers == clearTimeout(blurTimeoutId)

componentWillUnmount ==
  /\ phase = "mounted"
  /\ Due = {}
  /\ timers' = unmountTimers
  /\ phase' = "unmounted"
  /\ focused' = "none"
  /\ blurs' = [i \in DOMAIN blurs |->
                IF blurs[i].unmountAt = -1 THEN [blurs[i] EXCEPT !.unmountAt = now]
                                           ELSE blurs[i]]
  /\ ev' = [type |-> "unmount"]
  /\ calls' = <<>>
  /\ UNCHANGED <<currentYear, selected, value, blurTimeoutId, nextTimerId, now,
                 emitted, probe>>

\* a slip: the timeout is left pending
focusTimersKept == timers
focusTimers == clearTimeout(blurTimeoutId)
\* a slip: onFocus is not passed on
focusCallsNone == <<>>
\* this.props.onFocus()
focusCalls == <<Call("onFocus")>>

handleSelectFocus(control) ==
  /\ phase = "mounted"
  /\ Due = {}
  /\ focused = "none"
  /\ timers' = focusTimers
  /\ calls' = focusCalls
  /\ focused' = control
  /\ blurs' = [i \in DOMAIN blurs |->
                IF blurs[i].focusAt = -1 THEN [blurs[i] EXCEPT !.focusAt = now]
                                         ELSE blurs[i]]
  /\ ev' = [type |-> "focus", control |-> control]
  /\ UNCHANGED <<currentYear, phase, selected, value, blurTimeoutId, nextTimerId,
                 now, emitted, probe>>

\* a slip: a delay of a tenth
blurDelayShort == BLUR_TIMEOUT \div 10
blurDelay == BLUR_TIMEOUT

\* a slip: the timeout set before is left pending
blurTimersKept == timers \cup {[id |-> nextTimerId, due |-> now + blurDelay]}
\* window.clearTimeout(this.blurTimeoutId), then window.setTimeout
blurTimers ==
  clearTimeout(blurTimeoutId) \cup {[id |-> nextTimerId, due |-> now + blurDelay]}

\* the handler's body, whoever holds the focus
blurHandled(control) ==
  /\ phase = "mounted"
  /\ Due = {}
  /\ Len(blurs) < MaxBlurs
  /\ timers' = blurTimers
  /\ blurTimeoutId' = N(nextTimerId)
  /\ nextTimerId' = nextTimerId + 1
  /\ focused' = "none"
  /\ blurs' = Append(blurs, [control |-> control, at |-> now, focusAt |-> -1,
                              unmountAt |-> -1, fired |-> <<>>])
  /\ ev' = [type |-> "blur", control |-> control]
  /\ calls' = <<>>
  /\ UNCHANGED <<currentYear, phase, selected, value, now, emitted, probe>>

\* the blur of the control that holds the focus
handleSelectBlur(control) == focused = control /\ blurHandled(control)

\* a blur reported while no control holds the focus
handleSelectBlurAgain(control) == focused = "none" /\ blurHandled(control)

\* the timeout's callback, run by the window when the delay has elapsed
blurTimeoutFires(tm) ==
  /\ tm \in Due
  /\ timers' = timers \ {tm}
  /\ calls' = <<Call("onBlur")>>
  /\ blurs' = [blurs EXCEPT ![tm.id].fired =
                 Append(@, now)]
  /\ ev' = [type |-> "timeout", id |-> tm.id]
  /\ UNCHANGED <<currentYear, phase, selected, value, focused, blurTimeoutId,
                 nextTimerId, now, emitted, probe>>

\* a slip: the other fields are not spread into the new selection
mergeReset(type, raw) == [EmptySelected EXCEPT ![type] = parseNum(raw)]
\* { ...prevState.selected, [type]: parseNum(value) }
merge(type, raw) == [selected EXCEPT ![type] = parseNum(raw)]

\* a slip: every change also reports a blur
changeCallsWithBlur(arg) == <<CallWith("onChange", arg), Call("onBlur")>>
\* this.props.onChange(dateFromSelected(selected))
changeCalls(arg) == <<CallWith("onChange", arg)>>

handleSelectChange(type, raw) ==
  LET next == merge(type, raw)
      date == dateFromSelected(next)
      arg == IF IsDate(date) THEN AtRef(date, FreshRef) ELSE date
  IN /\ phase = "mounted"
     /\ Due = {}
     /\ calls' = changeCalls(arg)
     /\ emitted' = arg
     /\ selected' = next
     /\ ev' = [type |-> "change", field |-> type, raw |-> raw, prevSelected |-> selected]
     /\ UNCHANGED <<currentYear, phase, value, focused, blurTimeoutId, timers,
                    nextTimerId, now, blurs, probe>>

Min(set) == CHOOSE x \in set : \A y \in set : x <= y

\* time passes, up to the next timeout that falls due
Tick ==
  /\ Due = {}
  /\ now < MaxTime
  /\ now' = Min({now + TickMs, MaxTime} \cup {tm.due : tm \in timers})
  /\ UNCHANGED <<currentYear, phase, selected, value, focused, blurTimeoutId,
                 timers, nextTimerId, blurs, ev, calls, emitted, probe>>

Next ==
  \/ componentWillMount
  \/ \E newValue \in {Null, value, emitted} \cup OwnerDates :
       componentWillReceiveProps(newValue)
  \/ componentWillUnmount
  \/ \E control \in Controls : handleSelectFocus(control)
  \/ \E control \in Controls : handleSelectBlur(control)
  \/ \E tm \in timers : blurTimeoutFires(tm)
  \/ \E type \in Controls : \E raw \in OptionValues(type) : handleSelectChange(type, raw)
  \/ Tick

Spec == Init /\ [][Next]_vars

\* the focus and blur events of the controls, and the timeout, on their own
NextFocus ==
  \/ componentWillMount
  \/ componentWillUnmount
  \/ \E control \in Controls : handleSelectFocus(control)
  \/ \E control \in Controls : handleSelectBlur(control)
  \/ \E tm \in timers : blurTimeoutFires(tm)
  \/ Tick

SpecFocus == Init /\ [][NextFocus]_vars

\* the focus half, with blurs also reported while no control holds the focus
NextReblur ==
  \/ NextFocus
  \/ \E control \in Controls : handleSelectBlurAgain(control)

SpecReblur == Init /\ [][NextReblur]_vars

\* the field changes and the owner's value prop, on their own
NextSelect ==
  \/ componentWillMount
  \/ \E newValue \in {Null, value, emitted} \cup OwnerDates :
       componentWillReceiveProps(newValue)
  \/ \E type \in Controls : \E raw \in OptionValues(type) : handleSelectChange(type, raw)

SpecSelect == Init /\ [][NextSelect]_vars

InitDate ==
  /\ currentYear \in CurrentYears
  /\ phase = "constructed"
  /\ selected = EmptySelected
  /\ value = Null
  /\ focused = "none"
  /\ blurTimeoutId = Null
  /\ timers = {}
  /\ nextTimerId = 1
  /\ now = 0
  /\ blurs = <<>>
  /\ ev = [type |-> "construct"]
  /\ calls = <<>>
  /\ emitted = Null
  /\ \/ \E d \in Elems(days), m \in Elems(months), y \in Elems(years(currentYear)) :
          probe = ProbeStart(N(d), N(m), N(y))
     \/ \E d \in OddRaw \cup {N(29)}, m \in OddRaw \cup {N(2)}, y \in OddRaw \cup {N(2023)} :
          probe = ProbeStart(d, m, y)

NextDate == ProbeCompose \/ ProbeDecompose \/ ProbeRecompose

SpecDate == InitDate /\ [][NextDate]_vars

\* the two halves together, for one control and the owner's values null and
\* one date: the day control's focus, blur and changes, the timeout, the
\* value prop, the unmount and the clock
MixedControls == {"day"}
MixedValues == {Null} \cup {d \in OwnerDates : d.tv.ms = 0}

NextMixed ==
  \/ componentWillMount
  \/ \E newValue \in MixedValues : componentWillReceiveProps(newValue)
  \/ componentWillUnmount
  \/ \E control \in MixedControls : handleSelectFocus(control)
  \/ \E control \in MixedControls : handleSelectBlur(control)
  \/ \E tm \in timers : blurTimeoutFires(tm)
  \/ \E type \in MixedControls : \E raw \in OptionValues(type) :
       handleSelectChange(type, raw)
  \/ Tick

SpecMixed == Init /\ [][NextMixed]_vars

\* the field changes under an owner that hands every value it is given by
\* onChange back as the value prop before the next change, as the form
\* state of the Field does
NextFeedback ==
  \/ componentWillMount
  \/ /\ ev.type # "change"
     /\ \E type \in Controls : \E raw \in OptionValues(type) :
          handleSelectChange(type, raw)
  \/ /\ ev.type = "change"
     /\ componentWillReceiveProps(emitted)

SpecFeedback == Init /\ [][NextFeedback]_vars

(***************************************************************************)
(* The field wrapper, BirthdayInputFieldComponent: a function of its       *)
(* props, probed like the composer.  A result is the error it throws or    *)
(* the element it returns.                                                 *)
(***************************************************************************)
\* ToBoolean of a prop that is null or a string
Truthy(x) == x.t = "str" /\ x.s # <<>>

cssFieldRoot == S(<<"f", "i", "e", "l", "d", "R", "o", "o", "t">>)
\* classNames(...): the arguments that are truthy
classNames(a, b) ==
  (IF Truthy(a) THEN <<a>> ELSE <<>>) \o (IF Truthy(b) THEN <<b>> ELSE <<>>)

\* the element the wrapper returns
fieldElement(props) ==
  [t |-> "element",
   classes |-> classNames(IF Truthy(props.rootClassName) THEN props.rootClassName
                                                         ELSE cssFieldRoot,
                          props.className),
   label |-> IF Truthy(props.label) THEN [htmlFor |-> props.id, text |-> props.label]
                                    ELSE Null,
   input |-> [id |-> props.id, value |-> props.input.value],
   error |-> [fieldMeta |-> props.meta]]

\* a slip: the label is rendered whether or not there is an id
BirthdayInputFieldComponentUnchecked(props) == fieldElement(props)

BirthdayInputFieldComponent(props) ==
  IF Truthy(props.label) /\ ~Truthy(props.id)
    THEN [t |-> "throw", message |-> "id required when a label is given"]
    ELSE fieldElement(props)

\* the props probed: null, the empty string and a text
TextProps(chars) == {Null, S(<<>>), S(chars)}
ClassProps(chars) == {Null, S(chars)}

ProbeProps(props) == [pc |-> "props", props |-> props]

ProbeRenderField ==
  /\ probe.pc = "props"
  /\ probe' = [pc |-> "rendered", props |-> probe.props,
               out |-> BirthdayInputFieldComponent(probe.props)]
  /\ UNCHANGED <<currentYear, widgetVars>>

InitField ==
  /\ currentYear \in CurrentYears
  /\ phase = "constructed"
  /\ selected = EmptySelected
  /\ value = Null
  /\ focused = "none"
  /\ blurTimeoutId = Null
  /\ timers = {}
  /\ nextTimerId = 1
  /\ now = 0
  /\ blurs = <<>>
  /\ ev = [type |-> "construct"]
  /\ calls = <<>>
  /\ emitted = Null
  /\ \E label \in TextProps(<<"B", "o", "r", "n">>), id \in TextProps(<<"b", "d">>),
        rootClassName \in ClassProps(<<"r">>), className \in ClassProps(<<"c">>),
        v \in {Null} \cup OwnerDates, touched \in BOOLEAN :
       probe = ProbeProps([rootClassName |-> rootClassName, className |-> className,
                           id |-> id, label |-> label, input |-> [value |-> v],
                           meta |-> [touched |-> touched]])

NextField == ProbeRenderField

SpecField == InitField /\ [][NextField]_vars

(***************************************************************************)
(* The date composer's properties, under SpecDate                          *)
(***************************************************************************)
IsLeap(y) == (y % 4 = 0 /\ y % 100 # 0) \/ y % 400 = 0
DaysInMonth(m, y) ==
  CASE m \in {1, 3, 5, 7, 8, 10, 12} -> 31
    [] m \in {4, 6, 9, 11} -> 30
    [] OTHER -> IF IsLeap(y) THEN 29 ELSE 28

Composed == probe.pc \in {"composed", "decomposed", "recomposed"}
Decomposed == probe.pc \in {"decomposed", "recomposed"}
Fields == {"day", "month", "year"}

\* x holds no integer to read: it is absent, or a string that does not start
\* (after white space and one sign) with a digit
Unparseable(x) ==
  \/ x.t \in {"null", "NaN"}
  \/ /\ x.t = "str"
     /\ ~\E i \in 1..Len(x.s) :
          /\ IsDigit(x.s[i])
          /\ \A j \in 1..(i - 1) :
               x.s[j] = " " \/ (j = i - 1 /\ x.s[j] \in {"+", "-"})

\* C5: compose returns a date only if all three fields are present and the
\* UTC year, month and day read back from it are the selected numbers; a day
\* that the month of that year does not have is rejected, never rolled over
\* (31.4.2023 and 29.2.2023 are absent, 29.2.2024 is a date).
C5_ComposeExact ==
  Composed =>
    LET a == probe.arg
        r == probe.c1
        d == parseNum(a.day)
        m == parseNum(a.month)
        y == parseNum(a.year)
    IN /\ IsDate(r) =>
            /\ IsNum(d) /\ IsNum(m) /\ IsNum(y)
            /\ getUTCFullYear(r) = y
            /\ Plus1(getUTCMonth(r)) = m
            /\ getUTCDate(r) = d
            /\ m.v \in 1..12
            /\ d.v \in 1..DaysInMonth(m.v, y.v)
       /\ a = Sel(N(31), N(4), N(2023)) => r = Null
       /\ a = Sel(N(29), N(2), N(2023)) => r = Null
       /\ a = Sel(N(29), N(2), N(2024)) =>
            IsDate(r) /\ r.tv = [day |-> DayFromCivil(2024, 2, 29), ms |-> 0]

C5_Witness ==
  /\ probe.pc = "composed"
  /\ probe.arg = Sel(N(31), N(4), N(2023))
  /\ probe.c1 = Null

\* C6: a selection with a field that is absent or does not parse composes to
\* absent, and whatever the selection, compose returns absent or a date with
\* a time value: it never fails.
C6_ComposeAbsent ==
  Composed =>
    /\ (\E f \in Fields : Unparseable(probe.arg[f])) => probe.c1 = Null
    /\ probe.c1 = Null \/ (IsDate(probe.c1) /\ probe.c1.tv # NaN)

C6_Witness ==
  /\ probe.pc = "composed"
  /\ probe.arg = Sel(N(13), S(<<>>), N(1900))
  /\ probe.c1 = Null

\* C10: whenever compose(s) is a date, decompose gives three numbers of it
\* and composing those again gives a date of the same time value.
C10_RoundTrip ==
  /\ Decomposed =>
       \A f \in Fields : IsNum(probe.dec[f])
  /\ probe.pc = "recomposed" =>
       IsDate(probe.c2) /\ probe.c2.tv = probe.c1.tv

C10_Witness ==
  /\ probe.pc = "recomposed"
  /\ probe.arg = Sel(N(29), N(2), N(2020))
  /\ probe.dec = Sel(N(29), N(2), N(2020))
  /\ probe.c2.tv = [day |-> 18321, ms |-> 0]

(***************************************************************************)
(* The delayed blur notification, under SpecFocus.  blurs[i] tells of the  *)
(* i-th blur event: its control and time, the time of the first focus and  *)
(* of the unmount that followed it (-1: none yet), and the times at which  *)
(* the timeout it set invoked onBlur.                                      *)
(***************************************************************************)
Deadline(b) == b.at + BLUR_TIMEOUT
FocusWithin(b) == b.focusAt # -1 /\ b.focusAt < Deadline(b)
UnmountWithin(b) == b.unmountAt # -1 /\ b.unmountAt < Deadline(b)
\* the delay of b is over and no timeout is waiting to run
Over(b) == now >= Deadline(b) /\ Due = {}

\* C1: a blur followed by a focus on any control before the delay is over
\* leads to no onBlur call.
C1_FocusCancelsBlur ==
  \A i \in DOMAIN blurs : FocusWithin(blurs[i]) => blurs[i].fired = <<>>

C1_Witness ==
  \E i \in DOMAIN blurs :
    /\ FocusWithin(blurs[i])
    /\ ev.type = "focus" /\ ev.control # blurs[i].control
    /\ Over(blurs[i])
    /\ blurs[i].fired = <<>>

\* C2: when onBlur is invoked no control holds the focus, and no focus
\* followed the blur before the call: onBlur is not invoked while the focus
\* is inside the component.
C2_BlurOnlyOutside ==
  /\ ev.type = "timeout" => focused = "none" /\ calls = <<Call("onBlur")>>
  /\ \A i \in DOMAIN blurs : \A k \in DOMAIN blurs[i].fired :
       blurs[i].focusAt = -1 \/ blurs[i].focusAt >= blurs[i].fired[k]

C2_Witness ==
  /\ ev.type = "timeout"
  /\ Len(blurs) = 2
  /\ FocusWithin(blurs[1]) /\ blurs[1].control # blurs[2].control
  /\ blurs[1].fired = <<>> /\ blurs[2].fired = <<now>>

\* C3: a blur followed by no focus and no unmount before the delay is over
\* leads to exactly one onBlur call, made when the delay is over and not
\* before; the blur event itself invokes nothing.
C3_BlurFiresOnce ==
  /\ ev.type = "blur" => calls = <<>>
  /\ \A i \in DOMAIN blurs :
       LET b == blurs[i]
       IN /\ Len(b.fired) <= 1
          /\ \A k \in DOMAIN b.fired : b.fired[k] >= Deadline(b)
          /\ (~FocusWithin(b) /\ ~UnmountWithin(b) /\ Over(b)) => Len(b.fired) = 1

C3_Witness ==
  \E i \in DOMAIN blurs :
    /\ blurs[i].focusAt = -1 /\ blurs[i].unmountAt = -1
    /\ blurs[i].fired = <<Deadline(blurs[i])>>
    /\ now > Deadline(blurs[i])

\* C4: a blur followed by the unmount before the delay is over leads to no
\* onBlur call, and onBlur is never invoked once the component is unmounted.
C4_UnmountCancelsBlur ==
  /\ ev.type = "timeout" => phase = "mounted"
  /\ \A i \in DOMAIN blurs : UnmountWithin(blurs[i]) => blurs[i].fired = <<>>

C4_Witness ==
  \E i \in DOMAIN blurs :
    /\ UnmountWithin(blurs[i]) /\ blurs[i].focusAt = -1
    /\ phase = "unmounted"
    /\ now > Deadline(blurs[i])
    /\ blurs[i].fired = <<>>

(***************************************************************************)
(* The selection and the value prop, under SpecSelect.  ev tells of the    *)
(* last event: for a change its field and raw value, for new props the     *)
(* value the component had, and for both the selection before the event.   *)
(***************************************************************************)
\* the number an option value stands for, null for the empty option
Chosen(type, raw) ==
  IF raw = S(<<>>) THEN Null
  ELSE N(CHOOSE n \in Picks(type) : raw = S(ToStr(n)))

AllChosen(sel) == \A f \in Fields : IsNum(sel[f])
\* a full selection that is a day of the calendar
OnCalendar(sel) ==
  /\ AllChosen(sel)
  /\ sel.month.v \in 1..12
  /\ sel.day.v \in 1..DaysInMonth(sel.month.v, sel.year.v)

\* C7: a field change puts the parsed value in its field of the selection
\* and leaves the other two, whether or not the result composes; onChange is
\* called exactly once, with the date the new selection composes to, or
\* null: null when the selection is full and no day of the calendar.
C7_ChangeMergesAndEmits ==
  ev.type = "change" =>
    /\ selected[ev.field] = Chosen(ev.field, ev.raw)
    /\ \A f \in Fields \ {ev.field} : selected[f] = ev.prevSelected[f]
    /\ Len(calls) = 1 /\ calls[1].cb = "onChange" /\ calls[1].arg = emitted
    /\ IF IsDate(dateFromSelected(selected))
         THEN IsDate(emitted) /\ emitted.tv = dateFromSelected(selected).tv
         ELSE emitted = Null
    /\ (AllChosen(selected) /\ ~OnCalendar(selected)) => emitted = Null
    /\ OnCalendar(selected) =>
         /\ IsDate(emitted)
         /\ emitted.tv = [day |-> DayFromCivil(selected.year.v, selected.month.v,
                                                selected.day.v), ms |-> 0]

C7_Witness ==
  /\ ev.type = "change"
  /\ OnCalendar(ev.prevSelected)
  /\ AllChosen(selected) /\ ~OnCalendar(selected)
  /\ selected[ev.field] = Chosen(ev.field, ev.raw)
  /\ selected # ev.prevSelected
  /\ calls = <<CallWith("onChange", Null)>>

\* C8: new props whose value is another Date object than the one held set
\* the selection to that date's UTC day, month and year, whatever it was;
\* props with the same value leave the selection.
C8_ResyncOnNewDate ==
  ev.type = "props" =>
    /\ (IsDate(value) /\ ~Identical(ev.prevValue, value)) =>
         /\ selected = selectedFromDate(value)
         /\ value \in OwnerDates => selected = Sel(N(29), N(2), N(2024))
    /\ Identical(ev.prevValue, value) => selected = ev.prevSelected

C8_Witness ==
  /\ ev.type = "props"
  /\ IsDate(value) /\ IsDate(ev.prevValue) /\ ~Identical(ev.prevValue, value)
  /\ value.tv.day = ev.prevValue.tv.day
  /\ ev.prevSelected # selected
  /\ ~AllChosen(ev.prevSelected)
  /\ selected = selectedFromDate(value)

\* C9: new props whose value is null leave the selection as it was, also
\* when the value was a Date before.
C9_NullKeepsSelection ==
  (ev.type = "props" /\ value = Null) => selected = ev.prevSelected

C9_Witness ==
  /\ ev.type = "props"
  /\ value = Null /\ IsDate(ev.prevValue)
  /\ selected = ev.prevSelected
  /\ selected = selectedFromDate(ev.prevValue)

(***************************************************************************)
(* The focus handler and the mount, on their own                           *)
(***************************************************************************)
\* C11: a focus event on any control, also one that follows a blur of
\* another control within the delay, invokes onFocus exactly once and
\* nothing else, at once, and leaves no timeout pending: the blur
\* notification that was waiting is never made.
C11_FocusCancelsAndNotifies ==
  ev.type = "focus" =>
    /\ calls = <<Call("onFocus")>>
    /\ focused = ev.control
    /\ timers = {}
    /\ \A i \in DOMAIN blurs : blurs[i].focusAt # -1
    /\ \A i \in DOMAIN blurs :
         blurs[i].fired = <<>> => FocusWithin(blurs[i])

C11_Witness ==
  /\ ev.type = "focus"
  /\ calls = <<Call("onFocus")>>
  /\ timers = {}
  /\ \E i \in DOMAIN blurs :
       /\ blurs[i].focusAt = now /\ now < Deadline(blurs[i])
       /\ blurs[i].control # ev.control
       /\ blurTimeoutId = N(i)

\* C12: after the mount the selection is empty if the value prop is null
\* and the UTC day, month and year of the value if it is a Date; neither
\* the construction nor the mount invokes a callback.
C12_MountSelection ==
  /\ ev.type = "construct" => selected = EmptySelected /\ calls = <<>>
  /\ ev.type = "mount" =>
       /\ calls = <<>> /\ emitted = Null
       /\ value = Null => selected = EmptySelected
       /\ IsDate(value) =>
            /\ selected = selectedFromDate(value)
            /\ \A f \in Fields : IsNum(selected[f])
            /\ value.tv.day = DayFromCivil(selected.year.v, selected.month.v,
                                           selected.day.v)

C12_Witness ==
  /\ ev.type = "mount"
  /\ IsDate(value) /\ value.tv.ms # 0
  /\ selected = Sel(N(29), N(2), N(2024))
  /\ calls = <<>>

(***************************************************************************)
(* The field wrapper, under SpecField                                      *)
(***************************************************************************)
\* a label or an id is given: the prop is a string that is not empty
Given(x) == x # Null /\ x # S(<<>>)

\* C13: the wrapper given a label and no id throws its error and returns
\* no element; given an id, or no label, it throws nothing and returns the
\* element, with the label if there is one and the id handed to the input.
\* No other props make it throw.
C13_LabelNeedsId ==
  probe.pc = "rendered" =>
    LET p == probe.props
        out == probe.out
    IN /\ (Given(p.label) /\ ~Given(p.id)) =>
            out = [t |-> "throw", message |-> "id required when a label is given"]
       /\ (Given(p.id) \/ ~Given(p.label)) =>
            /\ out.t = "element"
            /\ out.label # Null <=> Given(p.label)
            /\ out.input.id = p.id
       /\ out.t \in {"throw", "element"}

C13_Witness ==
  /\ probe.pc = "rendered"
  /\ Given(probe.props.label) /\ probe.props.id = S(<<>>)
  /\ probe.out.t = "throw"

(***************************************************************************)
(* The options of the three controls, in every state of SpecSelect         *)
(***************************************************************************)
\* C14: whatever is selected, the day control offers the empty option and
\* then the days 1 to 31, the month control the empty option and then the
\* months 1 to 12, and the year control the empty option and then 80 years,
\* from the current year down to the year 79 before it, each below the one
\* before; no control offers anything else.
C14_OptionLists ==
  LET r == render
      dayOpts == r.day.options
      monthOpts == r.month.options
      yearOpts == r.year.options
  IN /\ \A c \in Controls : r[c].options[1] = EmptyOption
     /\ Len(dayOpts) = 32
     /\ \A d \in 1..31 : dayOpts[d + 1].value = N(d)
     /\ Len(monthOpts) = 13
     /\ \A m \in 1..12 : monthOpts[m + 1].value = N(m)
     /\ Len(yearOpts) = 81
     /\ \A k \in 0..79 : yearOpts[k + 2].value = N(currentYear - k)
     /\ \A i \in 2..80 : yearOpts[i].value.v > yearOpts[i + 1].value.v

C14_Witness ==
  /\ ev.type = "change"
  /\ selected.month = N(4) /\ selected.year = N(2023)
  /\ render.month.value = N(4)
  /\ render.day.options[32] = Option(31, <<"3", "1">>)
  /\ render.year.options[81].value = N(1944)

(***************************************************************************)
(* The single timeout, under SpecReblur                                    *)
(***************************************************************************)
\* blur j came while the timeout of blur i, the one before it, was pending
Rearmed(i, j) ==
  /\ j = i + 1 /\ j \in DOMAIN blurs
  /\ blurs[j].at < Deadline(blurs[i])
  /\ blurs[i].focusAt = -1 \/ blurs[i].focusAt >= blurs[j].at

\* C15: at most one timeout is pending at any time, the one blurTimeoutId
\* names.  A blur that comes while the timeout of the blur before it is
\* pending, with no focus in between, cancels that timeout: the earlier
\* blur never leads to an onBlur call, so that blurs following each other
\* in this way lead to one call at most, made for the last of them once
\* its delay is over.
C15_SingleTimer ==
  /\ Cardinality(timers) <= 1
  /\ \A tm \in timers : blurTimeoutId = N(tm.id)
  /\ \A i \in DOMAIN blurs :
       LET b == blurs[i]
       IN /\ Len(b.fired) <= 1
          /\ Rearmed(i, i + 1) => b.fired = <<>>
          /\ (~Rearmed(i, i + 1) /\ ~FocusWithin(b) /\ ~UnmountWithin(b) /\ Over(b))
               => b.fired = <<Deadline(b)>>

C15_Witness ==
  /\ ev.type = "timeout"
  /\ Len(blurs) = 2
  /\ Rearmed(1, 2) /\ blurs[2].at > blurs[1].at
  /\ blurs[1].focusAt = -1
  /\ blurs[1].fired = <<>>
  /\ blurs[2].fired = <<Deadline(blurs[2])>>
  /\ timers = {}

(***************************************************************************)
(* The focus and blur state machine, under SpecFocus                       *)
(***************************************************************************)
\* the state of the machine: a control holds the focus, or none does and a
\* timeout is pending, or none does and none is
Fsm ==
  IF focused # "none" THEN "focused"
  ELSE IF timers # {} THEN "blur-pending"
  ELSE "idle"

C17_FeedbackKeepsChoices ==
  /\ ev.type = "change" =>
       /\ selected[ev.field] = Chosen(ev.field, ev.raw)
       /\ \A f \in Fields \ {ev.field} : selected[f] = ev.prevSelected[f]
  /\ ev.type = "props" =>
       /\ Identical(value, emitted)
       /\ selected = ev.prevSelected
       /\ IsDate(value) =>
            /\ ~Identical(ev.prevValue, value)
            /\ selected = selectedFromDate(value)

C17_Witness ==
  /\ ev.type = "props"
  /\ value = Null /\ emitted = Null
  /\ IsDate(ev.prevValue) /\ ev.prevValue.ref \in ComposerRefs
  /\ selected = Sel(N(31), N(4), N(2024))
  /\ selected = ev.prevSelected

(***************************************************************************)
(* What each half leaves alone, under SpecMixed                            *)
(***************************************************************************)
FocusEvents == {"focus", "blur", "timeout", "unmount"}
SelectEvents == {"change", "props"}
Called(cs) == {cs[k].cb : k \in DOMAIN cs}

\* C18: a step that handles a focus, a blur, a timeout or the unmount
\* leaves the selection, the value and the last emitted value, and does not
\* call onChange; a step that handles a field change or new props leaves
\* the pending timeouts, blurTimeoutId and the focus, and calls neither
\* onFocus nor onBlur.  So a blur followed by no focus and no unmount
\* within the delay still leads to its one onBlur call when the delay is
\* over, whatever changes and props came in between.
C18_Frame ==
  /\ [][/\ ev'.type \in FocusEvents =>
            /\ UNCHANGED <<selected, value, emitted>>
            /\ "onChange" \notin Called(calls')
        /\ ev'.type \in SelectEvents =>
            /\ UNCHANGED <<timers, blurTimeoutId, nextTimerId, focused, blurs>>
            /\ Called(calls') \cap {"onFocus", "onBlur"} = {}
       ]_vars
  /\ [](\A i \in DOMAIN blurs :
          (~FocusWithin(blurs[i]) /\ ~UnmountWithin(blurs[i]) /\ Over(blurs[i]))
            => blurs[i].fired = <<Deadline(blurs[i])>>)

C18_Witness ==
  /\ ev.type = "change"
  /\ focused = "none"
  /\ \E tm \in timers : tm.due > now /\ blurs[tm.id].at < now
  /\ selected # ev.prevSelected
  /\ calls = <<CallWith("onChange", emitted)>>

=============================================================================
